---------------------------- MODULE Spec2Model ----------------------------
(* A model of the bedtime story generator: the storyteller and judge agents  *)
(* (storyteller.py, judge.py), the LangGraph workflow and the feedback path  *)
(* (story_workflow.py) and the data model (models.py).                       *)
(*                                                                           *)
(* Text is modelled as a sequence of one-character strings, so that the      *)
(* string methods the code relies on (strip, lower, split, startswith,       *)
(* slicing) are computed and not assumed.  A completion call is an input:    *)
(* its response is drawn from a finite set of texts, or the call fails.      *)
EXTENDS Integers, Sequences, FiniteSets, TLC

VARIABLES
    pc,       \* where the process is: a prompt of the shell or a node of the graph
    wf,       \* the WorkflowState of the running generate_story
    cs,       \* the shell's ConversationState (self.conversation_state)
    story,    \* run_chat_session's local story
    userFeedback,  \* run_chat_session's local feedback, while it is processed
    revisedStory,  \* run_chat_session's local revised_story, while it is in use
    revisionNotes, \* the feedback argument of the revise_story call of the step
                   \* just taken; empty after any other step
    trace,    \* the nodes the running workflow has executed so far
    evaluated, \* the story passed to judge.evaluate_story by the running
               \* workflow's latest evaluate_story step and the Evaluation it
               \* returned (empty before the first)
    allFlagged, \* every Evaluation the judge returned to the running workflow
                \* had needs_revision set
    sessions, \* the run_chat_session calls so far
    turns,    \* the feedback texts processed so far
    credential,   \* the value of OPENAI_API_KEY in the environment
    feedbackType, \* the feedback_type process_user_feedback returned (empty if none), while
                  \* the shell acts on it
    calls,    \* the calls process_user_feedback and the shell's feedback branch
              \* have made for the feedback being processed
    newStoryPending, \* a new-story command was entered and no story has been
                     \* generated since
    quitEntered,     \* a quit command was entered in this process run
    errorShown,      \* the error message a handler of run_chat_session has
                     \* printed since the last input was read: "generation",
                     \* "feedback" or "none"
    tOp,      \* text harness: the storyteller/classifier function applied last
    tIn,      \* text harness: the input it was applied to
    tOut,     \* text harness: what it returned
    jIn,      \* judge harness: the response of the evaluation call
    jOut,     \* judge harness: the outcome of JudgeAgent.evaluate_story
    sEval,    \* should_revise harness: the Evaluation passed
    sOut      \* should_revise harness: the result of JudgeAgent.should_revise

None == "None"

-----------------------------------------------------------------------------
(* Python str methods, on sequences of characters.                           *)

Whitespace == {" ", "\n", "\t"}

UpperLetters ==
    <<"A","B","C","D","E","F","G","H","I","J","K","L","M",
      "N","O","P","Q","R","S","T","U","V","W","X","Y","Z">>

LowerLetters ==
    <<"a","b","c","d","e","f","g","h","i","j","k","l","m",
      "n","o","p","q","r","s","t","u","v","w","x","y","z">>

LowerChar(c) ==
    IF \E i \in 1..26 : UpperLetters[i] = c
    THEN LowerLetters[CHOOSE i \in 1..26 : UpperLetters[i] = c]
    ELSE c

\* str.lower()
Lower(s) == [i \in 1..Len(s) |-> LowerChar(s[i])]

RECURSIVE LStrip(_)
LStrip(s) ==
    IF s # <<>> /\ Head(s) \in Whitespace THEN LStrip(Tail(s)) ELSE s

RECURSIVE RStrip(_)
RStrip(s) ==
    IF s # <<>> /\ s[Len(s)] \in Whitespace
    THEN RStrip(SubSeq(s, 1, Len(s) - 1))
    ELSE s

\* str.strip()
Strip(s) == RStrip(LStrip(s))

\* str.startswith(p)
StartsWith(s, p) == Len(s) >= Len(p) /\ SubSeq(s, 1, Len(p)) = p

\* str.endswith(p)
EndsWith(s, p) ==
    Len(s) >= Len(p) /\ SubSeq(s, Len(s) - Len(p) + 1, Len(s)) = p

\* s[n:] for n >= 0
SliceFrom(s, n) == SubSeq(s, n + 1, Len(s))

\* s[1:-1]
SliceInner(s) == SubSeq(s, 2, Len(s) - 1)

\* str.split(sep) for a one-character separator
RECURSIVE Split(_, _)
Split(s, sep) ==
    IF \E i \in 1..Len(s) : s[i] = sep
    THEN LET i == CHOOSE k \in 1..Len(s) :
                      s[k] = sep /\ \A m \in 1..(k - 1) : s[m] # sep
         IN  <<SubSeq(s, 1, i - 1)>> \o Split(SubSeq(s, i + 1, Len(s)), sep)
    ELSE <<s>>

\* sep.join(parts)
RECURSIVE Join(_, _)
Join(parts, sep) ==
    IF parts = <<>> THEN <<>>
    ELSE IF Len(parts) = 1 THEN parts[1]
    ELSE parts[1] \o <<sep>> \o Join(Tail(parts), sep)

-----------------------------------------------------------------------------
(* models.py: StoryCategory.  A member is named by a TLA+ string; its value  *)
(* is the text the enum is looked up by.                                     *)

StoryCategory ==
    {"adventure", "friendship", "magical", "animal", "educational",
     "mystery", "family"}

CategoryValue(c) ==
    CASE c = "adventure"   -> <<"a","d","v","e","n","t","u","r","e">>
      [] c = "friendship"  -> <<"f","r","i","e","n","d","s","h","i","p">>
      [] c = "magical"     -> <<"m","a","g","i","c","a","l">>
      [] c = "animal"      -> <<"a","n","i","m","a","l">>
      [] c = "educational" -> <<"e","d","u","c","a","t","i","o","n","a","l">>
      [] c = "mystery"     -> <<"m","y","s","t","e","r","y">>
      [] c = "family"      -> <<"f","a","m","i","l","y">>

\* StoryCategory(value): the member with that value, or ValueError
EnumLookup(value) ==
    IF \E c \in StoryCategory : CategoryValue(c) = value
    THEN CHOOSE c \in StoryCategory : CategoryValue(c) = value
    ELSE "ValueError"

-----------------------------------------------------------------------------
(* storyteller.py                                                            *)

\* A mutant of CategorizeRequest: the response is looked up as it stands.
CategorizeRequest_NoNormalise(response) ==
    LET looked == EnumLookup(response)
    IN  IF looked = "ValueError" THEN "adventure" ELSE looked

\* StorytellerAgent.categorize_request, given the response of its call
CategorizeRequest(response) ==
    LET looked == EnumLookup(Lower(Strip(response)))
    IN  IF looked = "ValueError" THEN "adventure" ELSE looked

TitleMarker == <<"T","i","t","l","e",":">>

Quote == <<"\"">>

\* A mutant of ExtractTitle: the text after the marker is not trimmed.
ExtractTitle_NoStripAfterMarker(story_content) ==
    LET lines == Split(Strip(story_content), "\n")
        title == Strip(lines[1])
    IN  IF StartsWith(title, Quote) /\ EndsWith(title, Quote)
        THEN SliceInner(title)
        ELSE IF StartsWith(title, TitleMarker)
        THEN SliceFrom(title, 6)
        ELSE title

\* the title of generate_story and revise_story
ExtractTitle(story_content) ==
    LET lines == Split(Strip(story_content), "\n")
        title == Strip(lines[1])
    IN  IF StartsWith(title, Quote) /\ EndsWith(title, Quote)
        THEN SliceInner(title)
        ELSE IF StartsWith(title, TitleMarker)
        THEN Strip(SliceFrom(title, 6))
        ELSE title

\* the index (1-based) of the line the body starts at
StoryStartIdx(lines) ==
    LET found == {k \in 2..Len(lines) :
                     Strip(lines[k]) # <<>> /\ ~StartsWith(lines[k], TitleMarker)}
    IN  IF found = {} THEN 2
        ELSE CHOOSE k \in found : \A m \in found : k <= m

\* the content of generate_story and revise_story
ExtractContent(story_content) ==
    LET lines == Split(Strip(story_content), "\n")
    IN  Strip(Join(SubSeq(lines, StoryStartIdx(lines), Len(lines)), "\n"))

RECURSIVE NonEmpty(_)
NonEmpty(parts) ==
    IF parts = <<>> THEN <<>>
    ELSE IF Head(parts) = <<>> THEN NonEmpty(Tail(parts))
    ELSE <<Head(parts)>> \o NonEmpty(Tail(parts))

\* StorytellerAgent._extract_characters, given the response of its call
ExtractCharacters(response) ==
    LET parts == Split(response, ",")
    IN  NonEmpty([i \in 1..Len(parts) |-> Strip(parts[i])])

\* StorytellerAgent._extract_moral_lesson, given the response of its call
ExtractMoralLesson(response) == Strip(response)

\* models.py: Story
MkStory(title, content, category, moral, characters) ==
    [title |-> title, content |-> content, category |-> category,
     age_appropriate |-> TRUE, moral_lesson |-> moral,
     characters |-> characters]

\* A mutant of GenerateStory: the request is always categorized again.
GenerateStory_AlwaysCategorize(request_category, catResp, storyResp, charResp, moralResp) ==
    LET category == CategorizeRequest(catResp)
    IN  [story |-> MkStory(ExtractTitle(storyResp), ExtractContent(storyResp),
                           category, ExtractMoralLesson(moralResp),
                           ExtractCharacters(charResp)),
         request_category |-> category,
         categorize_called |-> TRUE]

\* StorytellerAgent.generate_story: the Story returned, the category the
\* request holds afterwards, and whether categorize_request was called
GenerateStory(request_category, catResp, storyResp, charResp, moralResp) ==
    LET called   == request_category = None
        category == IF called THEN CategorizeRequest(catResp)
                    ELSE request_category
    IN  [story |-> MkStory(ExtractTitle(storyResp), ExtractContent(storyResp),
                           category, ExtractMoralLesson(moralResp),
                           ExtractCharacters(charResp)),
         request_category |-> category,
         categorize_called |-> called]

\* A mutant of ReviseStory: the revised story is filed under the default
\* category.
ReviseStory_DefaultCategory(original_story, feedback, storyResp, charResp, moralResp) ==
    MkStory(ExtractTitle(storyResp), ExtractContent(storyResp),
            "adventure", ExtractMoralLesson(moralResp),
            ExtractCharacters(charResp))

\* StorytellerAgent.revise_story, given the responses of its three calls; the
\* feedback goes into the prompt of the first call and nowhere else
ReviseStory(original_story, feedback, storyResp, charResp, moralResp) ==
    MkStory(ExtractTitle(storyResp), ExtractContent(storyResp),
            original_story.category, ExtractMoralLesson(moralResp),
            ExtractCharacters(charResp))

-----------------------------------------------------------------------------
(* judge.py: JudgeAgent.evaluate_story.                                      *)
(*                                                                           *)
(* The response of the evaluation call is described by what json.loads       *)
(* makes of it: text it rejects (syntax "rejected": prose, an empty          *)
(* response, JSON inside a code fence), one of the literals NaN, Infinity    *)
(* and -Infinity, which are not JSON but which json.loads reads as a float   *)
(* (syntax "literal"), or JSON (syntax "json").  A Python value is a record  *)
(* tagged with its type.                                                     *)

PyInt(n)        == [t |-> "int", v |-> n]
PyFloat(n, w)   == [t |-> "float", v |-> n, whole |-> w, nan |-> FALSE]
PyNumStr(n)     == [t |-> "str", numeric |-> TRUE, v |-> n]   \* "7"
PyWord          == [t |-> "str", numeric |-> FALSE, v |-> 0]  \* "high"
PyBool(b)       == [t |-> "bool", v |-> b]
PyNull          == [t |-> "NoneType"]
PyNaN           == [t |-> "float", v |-> 0, whole |-> FALSE, nan |-> TRUE]
PyList(items)   == [t |-> "list", v |-> items]
PyDict(members) == [t |-> "dict", v |-> members]

Raised(name) == [exc |-> name]
Value(v)     == [exc |-> "none", value |-> v]

\* json.loads(text): the value, or JSONDecodeError
JsonLoads(response) ==
    IF response.syntax = "rejected" THEN Raised("JSONDecodeError")
    ELSE Value(response.value)

EvaluationKeys ==
    <<"overall_score", "age_appropriateness", "engagement_level",
      "educational_value", "creativity", "strengths",
      "areas_for_improvement", "suggestions", "needs_revision">>

\* data[key] for a str key: the member, KeyError, or TypeError
Subscript(data, key) ==
    IF data.t # "dict" THEN Raised("TypeError")
    ELSE IF key \in DOMAIN data.v THEN Value(data.v[key])
    ELSE Raised("KeyError")

\* models.py: the bounds of a score, Field(ge=1, le=10)
ScoreMin == 1
ScoreMax == 10

\* A mutant of ValidateScore: the upper bound of a score is not checked.
ValidateScore_NoUpperBound(value) ==
    LET ranged(n) == IF n >= ScoreMin
                     THEN {Value(n)} ELSE {Raised("ValidationError")}
    IN  CASE value.t = "int"  -> ranged(value.v)
          [] value.t = "bool" -> ranged(IF value.v THEN 1 ELSE 0)
          [] value.t = "float" ->
                IF value.nan THEN {Raised("ValidationError")}
                ELSE IF value.whole THEN ranged(value.v)
                ELSE ranged(value.v) \cup {Raised("ValidationError")}
          [] value.t = "str" ->
                IF value.numeric THEN ranged(value.v)
                ELSE {Raised("ValidationError")}
          [] OTHER -> {Raised("ValidationError")}

\* pydantic's validation of an int field with ge=1, le=10: the set of results
\* a build can give (a fractional float is truncated by pydantic 1 and
\* rejected by pydantic 2; the version is not pinned)
ValidateScore(value) ==
    LET ranged(n) == IF n >= ScoreMin /\ n <= ScoreMax
                     THEN {Value(n)} ELSE {Raised("ValidationError")}
    IN  CASE value.t = "int"  -> ranged(value.v)
          [] value.t = "bool" -> ranged(IF value.v THEN 1 ELSE 0)
          [] value.t = "float" ->
                IF value.nan THEN {Raised("ValidationError")}
                ELSE IF value.whole THEN ranged(value.v)
                ELSE ranged(value.v) \cup {Raised("ValidationError")}
          [] value.t = "str" ->
                IF value.numeric THEN ranged(value.v)
                ELSE {Raised("ValidationError")}
          [] OTHER -> {Raised("ValidationError")}

\* pydantic's validation of a List[str] field
ValidateStrList(value) ==
    IF value.t = "list" THEN Value(value.v) ELSE Raised("ValidationError")

\* pydantic's validation of a bool field
ValidateBool(value) ==
    CASE value.t = "bool" -> Value(value.v)
      [] value.t = "int" /\ value.v \in {0, 1} -> Value(value.v = 1)
      [] OTHER -> Raised("ValidationError")

\* models.py: JudgeEvaluation(...) on raw values: the set of outcomes
JudgeEvaluation(raw) ==
    LET s == ValidateStrList(raw["strengths"])
        i == ValidateStrList(raw["areas_for_improvement"])
        u == ValidateStrList(raw["suggestions"])
        n == ValidateBool(raw["needs_revision"])
    IN  { IF \/ o.exc # "none" \/ a.exc # "none" \/ g.exc # "none"
             \/ e.exc # "none" \/ c.exc # "none" \/ s.exc # "none"
             \/ i.exc # "none" \/ u.exc # "none" \/ n.exc # "none"
          THEN [kind |-> "raise", error |-> "ValidationError"]
          ELSE [kind |-> "Evaluation",
                overall_score |-> o.value, age_appropriateness |-> a.value,
                engagement_level |-> g.value, educational_value |-> e.value,
                creativity |-> c.value,
                strengths |-> s.value,
                areas_for_improvement |-> i.value,
                suggestions |-> u.value,
                needs_revision |-> n.value] :
          o \in ValidateScore(raw["overall_score"]),
          a \in ValidateScore(raw["age_appropriateness"]),
          g \in ValidateScore(raw["engagement_level"]),
          e \in ValidateScore(raw["educational_value"]),
          c \in ValidateScore(raw["creativity"]) }

\* A mutant of FallbackEvaluation: the fallback asks for a revision.
FallbackEvaluation_NeedsRevision ==
    [kind |-> "Evaluation",
     overall_score |-> 7, age_appropriateness |-> 8, engagement_level |-> 7,
     educational_value |-> 7, creativity |-> 6,
     strengths |-> <<"Story has a clear structure", "Age-appropriate content">>,
     areas_for_improvement |-> <<"Could use more vivid descriptions",
                                 "Character development could be enhanced">>,
     suggestions |-> <<"Add more sensory details",
                       "Include more character emotions">>,
     needs_revision |-> TRUE]

\* JudgeAgent._fallback_evaluation
FallbackEvaluation ==
    [kind |-> "Evaluation",
     overall_score |-> 7, age_appropriateness |-> 8, engagement_level |-> 7,
     educational_value |-> 7, creativity |-> 6,
     strengths |-> <<"Story has a clear structure", "Age-appropriate content">>,
     areas_for_improvement |-> <<"Could use more vivid descriptions",
                                 "Character development could be enhanced">>,
     suggestions |-> <<"Add more sensory details",
                       "Include more character emotions">>,
     needs_revision |-> FALSE]

\* JudgeAgent.evaluate_story, given the response of its call: the set of
\* outcomes, each an Evaluation or an exception that leaves the method.
\* The except clause catches json.JSONDecodeError and KeyError only.
EvaluateStory(response) ==
    LET data == JsonLoads(response)
    IN  IF data.exc = "JSONDecodeError" THEN {FallbackEvaluation}
        ELSE IF Subscript(data.value, EvaluationKeys[1]).exc = "TypeError"
        THEN {[kind |-> "raise", error |-> "TypeError"]}
        ELSE IF \E k \in 1..Len(EvaluationKeys) :
                    Subscript(data.value, EvaluationKeys[k]).exc = "KeyError"
        THEN {FallbackEvaluation}
        ELSE JudgeEvaluation(data.value.v)

\* the default of should_revise's min_threshold
MinThreshold == 6

\* A mutant of ShouldRevise: the overall_score < 7 rule is left out.
ShouldRevise_NoOverallRule(evaluation, min_threshold) ==
    \/ evaluation.needs_revision
    \/ \E score \in {evaluation.overall_score,
                     evaluation.age_appropriateness,
                     evaluation.engagement_level} : score < min_threshold

\* JudgeAgent.should_revise
ShouldRevise(evaluation, min_threshold) ==
    \/ evaluation.needs_revision
    \/ \E score \in {evaluation.overall_score,
                     evaluation.age_appropriateness,
                     evaluation.engagement_level} : score < min_threshold
    \/ evaluation.overall_score < 7

-----------------------------------------------------------------------------
(* story_workflow.py: StoryWorkflow._classify_feedback                       *)

LabelStoryModification ==
    <<"s","t","o","r","y","_","m","o","d","i","f","i","c","a","t","i","o","n">>

LabelGeneralChat == <<"g","e","n","e","r","a","l","_","c","h","a","t">>

\* A mutant of ClassifyFeedback: an unknown response counts as chat.
ClassifyFeedback_DefaultChat(response) ==
    LET classification == Lower(Strip(response))
    IN  IF classification \in {LabelStoryModification, LabelGeneralChat}
        THEN classification
        ELSE LabelGeneralChat

\* StoryWorkflow._classify_feedback, given the response of its call
ClassifyFeedback(response) ==
    LET classification == Lower(Strip(response))
    IN  IF classification \in {LabelStoryModification, LabelGeneralChat}
        THEN classification
        ELSE LabelStoryModification

-----------------------------------------------------------------------------
(* The responses a completion call is given in the text harness.  Each is    *)
(* put together from pieces, and the pieces are kept beside the text, so     *)
(* that what the code should make of it is known from its construction.      *)

UpperChar(c) ==
    IF \E i \in 1..26 : LowerLetters[i] = c
    THEN UpperLetters[CHOOSE i \in 1..26 : LowerLetters[i] = c]
    ELSE c

CaseStyles == {"lower", "upper", "capital"}

ApplyCase(base, style) ==
    CASE style = "lower"   -> base
      [] style = "upper"   -> [i \in 1..Len(base) |-> UpperChar(base[i])]
      [] style = "capital" ->
            [i \in 1..Len(base) |-> IF i = 1 THEN UpperChar(base[i]) ELSE base[i]]

LeadPieces  == {<<>>, <<" ">>, <<"\n", " ">>}
TrailPieces == {<<>>, <<"\n">>, <<" ", "\t">>}

\* lowercase texts without surrounding whitespace: the two labels and others
ClassifyBases ==
    {LabelStoryModification,
     LabelGeneralChat,
     <<>>,
     <<"c","h","a","t">>,
     <<"g","e","n","e","r","a","l"," ","c","h","a","t">>,
     LabelGeneralChat \o <<".">>,
     Quote \o LabelStoryModification \o Quote,
     LabelGeneralChat \o <<"\n">> \o LabelStoryModification}

ClassifyInput(l, b, st, t) ==
    [op |-> "classify", base |-> b, text |-> l \o ApplyCase(b, st) \o t]

\* lowercase texts without surrounding whitespace: the seven names and others
CategorizeBases ==
    {CategoryValue(c) : c \in StoryCategory}
        \cup {<<>>,
              <<"f","a","n","t","a","s","y">>,
              CategoryValue("animal") \o <<"s">>,
              CategoryValue("magical") \o <<".">>,
              CategoryValue("family") \o <<" ">> \o CategoryValue("mystery")}

CategorizeInput(l, b, st, t) ==
    [op |-> "categorize", base |-> b, text |-> l \o ApplyCase(b, st) \o t]

TheBraveMouse ==
    <<"T","h","e"," ","B","r","a","v","e"," ","M","o","u","s","e">>

\* what may stand between quotes
QuotedTexts ==
    {<<>>, TheBraveMouse, <<" ","A"," ">>, <<"\"","A">>,
     TitleMarker \o <<" ","A">>}

\* what may follow the marker: no surrounding whitespace
MarkerTexts ==
    {<<>>, TheBraveMouse, <<"\"","A","\"">>, <<"A","\"">>}

\* a bare first line: not empty, no surrounding whitespace, not wrapped in
\* quotes, not starting with the marker
BareTexts ==
    {TheBraveMouse, <<"\"","A">>, <<"A","\"">>, <<"#"," ","A">>,
     <<"t","i","t","l","e",":"," ","A">>}

FirstLine(form, text, gap) ==
    CASE form = "quoted" -> Quote \o text \o Quote
      [] form = "marker" -> TitleMarker \o gap \o text
      [] form = "bare"   -> text

\* what follows the first line
RestPieces ==
    {<<>>,
     <<"\n","\n","O","n","c","e",".","\n","E","n","d",".">>,
     <<"\n">> \o TitleMarker \o <<"x","\n"," ","\n","O","n","c","e",".">>}

LeadOfStory  == {<<>>, <<"\n", " ">>}
TrailOfTitle == {<<>>, <<" ">>}
GapPieces    == {<<>>, <<" ">>}

TitleForms == {"quoted", "marker", "bare"}

TitleTexts(form) ==
    CASE form = "quoted" -> QuotedTexts
      [] form = "marker" -> MarkerTexts
      [] form = "bare"   -> BareTexts

\* a response of the story call: the form and the text of its first line,
\* and the whole text
StoryResponse(f, x, g, l, t, r) ==
    [form |-> f, title |-> x, text |-> l \o FirstLine(f, x, g) \o t \o r]

CharactersResponse == <<"M","i","a",","," ","w","i","s","e"," ","o","w","l",","," ">>

MoralResponse == <<" ","B","e"," ","k","i","n","d",".","\n">>

FeedbackTexts ==
    {<<"m","a","k","e"," ","i","t"," ","l","o","n","g","e","r">>,
     <<"c","a","t","e","g","o","r","y",":"," ","m","y","s","t","e","r","y">>}

RequestCategories == {None, "magical", "family"}

GenerateCatBases ==
    {CategoryValue("animal"), CategoryValue("mystery"), <<"f","u","n">>}

GenerateInput(rc, b, sr) ==
    [op |-> "generate", request_category |-> rc, catBase |-> b,
     catResp |-> ApplyCase(b, "capital") \o <<"\n">>, story |-> sr]

ReviseInput(c, fb, sr) ==
    [op |-> "revise", category |-> c, feedback |-> fb, story |-> sr]

-----------------------------------------------------------------------------
(* The responses the evaluation call is given in the judge harness.          *)

Absent == [t |-> "absent"]

OverallSamples ==
    {Absent, PyInt(0), PyInt(1), PyInt(6), PyInt(7), PyInt(10), PyInt(11),
     PyFloat(9, TRUE), PyFloat(7, FALSE), PyFloat(10, FALSE), PyNumStr(8),
     PyWord, PyNull, PyBool(TRUE), PyNaN}

AgeSamples        == {Absent, PyInt(5), PyInt(8), PyInt(11)}
EngagementSamples == {Absent, PyInt(6), PyInt(9)}
EducationalSamples == {Absent, PyInt(7), PyInt(0)}
CreativitySamples == {Absent, PyInt(6), PyInt(12)}
StrengthsSamples  == {Absent, PyList(<<"Warm tone", "Clear plot">>), PyNull}
AreasSamples      == {Absent, PyList(<<"Pacing">>)}
SuggestionsSamples == {Absent, PyList(<<>>)}
NeedsRevisionSamples == {Absent, PyBool(TRUE), PyBool(FALSE), PyInt(1), PyNull}

\* a JSON object: the keys whose sample is not Absent, with their values
MkObject(vals) ==
    LET present == {k \in 1..Len(EvaluationKeys) : vals[k].t # "absent"}
    IN  PyDict([key \in {EvaluationKeys[k] : k \in present} |->
                  vals[CHOOSE k \in present : EvaluationKeys[k] = key]])

\* responses that are no JSON object
NonObjectResponses ==
    {[syntax |-> "rejected", value |-> PyNull],
     [syntax |-> "literal", value |-> PyNaN],
     [syntax |-> "json", value |-> PyNull],
     [syntax |-> "json", value |-> PyInt(7)],
     [syntax |-> "json", value |-> PyBool(TRUE)],
     [syntax |-> "json", value |-> PyWord],
     [syntax |-> "json", value |-> PyList(<<>>)],
     [syntax |-> "json", value |-> PyList(<<"overall_score">>)]}

ObjectResponse(vals) == [syntax |-> "json", value |-> MkObject(vals)]

\* an Evaluation of the data model, with the lists held fixed
SampleEvaluation(o, a, g, e, c, n) ==
    [kind |-> "Evaluation",
     overall_score |-> o, age_appropriateness |-> a, engagement_level |-> g,
     educational_value |-> e, creativity |-> c,
     strengths |-> <<"Warm tone">>, areas_for_improvement |-> <<"Pacing">>,
     suggestions |-> <<>>, needs_revision |-> n]

-----------------------------------------------------------------------------
(* The harnesses: a function of the code is applied to one input.            *)

textVars  == <<tOp, tIn, tOut>>
judgeVars == <<jIn, jOut>>
srVars    == <<sEval, sOut>>

Idle == [op |-> "idle"]

TextIdle  == tOp = "idle" /\ tIn = Idle /\ tOut = Idle
JudgeIdle == jIn = Idle /\ jOut = Idle
SrIdle    == sEval = Idle /\ sOut = "idle"

ApplyClassify ==
    /\ tOp = "ready" /\ tIn.op = "classify"
    /\ tOut' = ClassifyFeedback(tIn.text)
    /\ tOp' = "done"
    /\ UNCHANGED tIn

ApplyCategorize ==
    /\ tOp = "ready" /\ tIn.op = "categorize"
    /\ tOut' = CategorizeRequest(tIn.text)
    /\ tOp' = "done"
    /\ UNCHANGED tIn

ApplyGenerate ==
    /\ tOp = "ready" /\ tIn.op = "generate"
    /\ tOut' = GenerateStory(tIn.request_category, tIn.catResp, tIn.story.text,
                             CharactersResponse, MoralResponse)
    /\ tOp' = "done"
    /\ UNCHANGED tIn

\* the story revise_story is given in the harness
OriginalStory(category) ==
    MkStory(TheBraveMouse, <<"O","n","c","e",".">>, category,
            <<"B","e"," ","k","i","n","d",".">>, <<<<"M","i","a">>>>)

ApplyRevise ==
    /\ tOp = "ready" /\ tIn.op = "revise"
    /\ tOut' = ReviseStory(OriginalStory(tIn.category), tIn.feedback,
                           tIn.story.text, CharactersResponse, MoralResponse)
    /\ tOp' = "done"
    /\ UNCHANGED tIn

ApplyEvaluate ==
    /\ jIn # Idle /\ jOut = Idle
    /\ jOut' \in EvaluateStory(jIn)
    /\ UNCHANGED jIn

ApplyShouldRevise ==
    /\ sEval # Idle /\ sOut = "idle"
    /\ sOut' = IF ShouldRevise(sEval, MinThreshold) THEN "revise" ELSE "keep"
    /\ UNCHANGED sEval

-----------------------------------------------------------------------------
(* judge.py: JudgeAgent.generate_revision_guidance.  The text is kept as the *)
(* sequence of its lines; a bullet line is a record holding its item.        *)

Bullets(items) == [k \in 1..Len(items) |-> [bullet |-> items[k]]]

Line(text) == [line |-> text]

GenerateRevisionGuidance(evaluation) ==
    (IF evaluation.overall_score < 7
     THEN <<Line("Focus on improving overall story structure and flow.")>>
     ELSE <<>>)
    \o (IF evaluation.age_appropriateness < 8
        THEN <<Line("Ensure language and themes are fully appropriate for the target age group.")>>
        ELSE <<>>)
    \o (IF evaluation.engagement_level < 7
        THEN <<Line("Make the story more engaging with vivid descriptions and compelling characters.")>>
        ELSE <<>>)
    \o (IF evaluation.educational_value < 7
        THEN <<Line("Strengthen the moral lesson or educational value of the story.")>>
        ELSE <<>>)
    \o (IF evaluation.creativity < 6
        THEN <<Line("Add more creative and imaginative elements to make the story unique.")>>
        ELSE <<>>)
    \o (IF evaluation.suggestions # <<>>
        THEN <<Line("Specific improvements to make:")>> \o Bullets(evaluation.suggestions)
        ELSE <<>>)
    \o (IF evaluation.areas_for_improvement # <<>>
        THEN <<Line("Areas needing attention:")>> \o Bullets(evaluation.areas_for_improvement)
        ELSE <<>>)

-----------------------------------------------------------------------------
(* models.py: ConversationState; story_workflow.py: WorkflowState.           *)
(* An Optional field is a sequence: empty for None, else the one value.      *)

NewConversationState ==
    [current_story |-> <<>>, story_history |-> <<>>, feedback_history |-> <<>>,
     revision_count |-> 0, user_preferences |-> <<>>]

\* models.py: StoryRequest
MkStoryRequest(request, length_preference) ==
    [request |-> request, age_range |-> <<5, 10>>,
     length_preference |-> length_preference, category |-> None]

\* no workflow is running
NoWorkflow ==
    [story_request |-> <<>>, current_story |-> <<>>, evaluation |-> <<>>,
     user_feedback |-> <<>>, revision_count |-> 0,
     conversation_state |-> NewConversationState, should_continue |-> FALSE,
     final_story |-> <<>>]

\* StoryWorkflow.generate_story: initial_state
InitialState(request, length_preference) ==
    [story_request |-> <<MkStoryRequest(request, length_preference)>>,
     current_story |-> <<>>, evaluation |-> <<>>, user_feedback |-> <<>>,
     revision_count |-> 0, conversation_state |-> NewConversationState,
     should_continue |-> TRUE, final_story |-> <<>>]

-----------------------------------------------------------------------------
(* story_workflow.py: the nodes and the conditional edge of the graph, as    *)
(* functions of the WorkflowState and of the responses of their calls.       *)

\* StoryWorkflow._generate_story
NodeGenerateStory(state, catResp, storyResp, charResp, moralResp) ==
    LET request == state.story_request[1]
        g == GenerateStory(request.category, catResp, storyResp, charResp,
                           moralResp)
    IN  [state EXCEPT
            !.story_request = <<[request EXCEPT !.category = g.request_category]>>,
            !.current_story = <<g.story>>,
            !.revision_count = 0]

\* A variant of NodeEvaluateStory: the first Evaluation of a run is kept.
NodeEvaluateStory_KeepsFirst(state, evaluation) ==
    IF state.evaluation = <<>>
    THEN [state EXCEPT !.evaluation = <<evaluation>>]
    ELSE state

\* StoryWorkflow._evaluate_story, given the Evaluation the judge returned
NodeEvaluateStory(state, evaluation) ==
    [state EXCEPT !.evaluation = <<evaluation>>]

\* A mutant of WorkflowShouldRevise: the cap is tested with > instead of >=.
WorkflowShouldRevise_CapOffByOne(state) ==
    IF state.revision_count > 2 THEN "finalize"
    ELSE IF ShouldRevise(state.evaluation[1], MinThreshold) THEN "revise"
    ELSE "finalize"

\* A variant of WorkflowShouldRevise: below the cap the story is always
\* revised.
WorkflowShouldRevise_IgnoresJudge(state) ==
    IF state.revision_count >= 2 THEN "finalize" ELSE "revise"

\* StoryWorkflow._should_revise
WorkflowShouldRevise(state) ==
    IF state.revision_count >= 2 THEN "finalize"
    ELSE IF ShouldRevise(state.evaluation[1], MinThreshold) THEN "revise"
    ELSE "finalize"

\* StoryWorkflow._revise_story: the guidance passed to revise_story
\* (`if user_feedback:` is false for None and for the empty string)
RevisionGuidance(state) ==
    IF state.user_feedback # <<>> /\ state.user_feedback[1] # <<>>
    THEN <<[user_feedback |-> state.user_feedback[1]]>>
    ELSE GenerateRevisionGuidance(state.evaluation[1])

\* A variant of NodeReviseStory: the story that is replaced is not kept.
NodeReviseStory_NoHistory(state, storyResp, charResp, moralResp) ==
    LET current_story == state.current_story[1]
        revised_story == ReviseStory(current_story, RevisionGuidance(state),
                                     storyResp, charResp, moralResp)
        conversation_state ==
            [state.conversation_state EXCEPT !.revision_count = @ + 1]
    IN  [state EXCEPT
            !.current_story = <<revised_story>>,
            !.revision_count = @ + 1,
            !.conversation_state = conversation_state,
            !.user_feedback = <<>>]

\* StoryWorkflow._revise_story
NodeReviseStory(state, storyResp, charResp, moralResp) ==
    LET current_story == state.current_story[1]
        revised_story == ReviseStory(current_story, RevisionGuidance(state),
                                     storyResp, charResp, moralResp)
        conversation_state ==
            [state.conversation_state EXCEPT
                !.story_history = Append(@, current_story),
                !.revision_count = @ + 1]
    IN  [state EXCEPT
            !.current_story = <<revised_story>>,
            !.revision_count = @ + 1,
            !.conversation_state = conversation_state,
            !.user_feedback = <<>>]

\* A variant of NodeFinalizeStory: finalizing clears the revision counter.
NodeFinalizeStory_ResetsCount(state) ==
    [state EXCEPT
        !.final_story = state.current_story,
        !.revision_count = 0,
        !.conversation_state =
            [state.conversation_state EXCEPT !.current_story = state.current_story],
        !.should_continue = FALSE]

\* A variant of NodeFinalizeStory: the ConversationState is left as it is.
NodeFinalizeStory_NoCopy(state) ==
    [state EXCEPT
        !.final_story = state.current_story,
        !.should_continue = FALSE]

\* StoryWorkflow._finalize_story
NodeFinalizeStory(state) ==
    [state EXCEPT
        !.final_story = state.current_story,
        !.conversation_state =
            [state.conversation_state EXCEPT !.current_story = state.current_story],
        !.should_continue = FALSE]

-----------------------------------------------------------------------------
(* The inputs of the process: what the user types and what the completion    *)
(* calls answer.                                                             *)

CmdQuit     == {<<"q","u","i","t">>, <<"e","x","i","t">>, <<"b","y","e">>}

CmdNewStory ==
    {<<"n","e","w"," ","s","t","o","r","y">>, <<"n","e","w">>,
     <<"s","t","a","r","t"," ","o","v","e","r">>,
     <<"d","i","f","f","e","r","e","n","t"," ","s","t","o","r","y">>}

CmdHelp     == {<<"h","e","l","p">>, <<"?">>}

ShyRobot    == <<"a"," ","s","h","y"," ","r","o","b","o","t">>

\* what the user types at the story-request prompt
RequestInputs ==
    {<<>>, <<" ">>, <<"Q","u","i","t">>, <<"b","y","e"," ">>,
     <<"N","e","w"," ","S","t","o","r","y">>, <<"h","e","l","p">>, ShyRobot}

\* the choices of get_story_preferences the process is followed for: the
\* default and one other
LengthChoices == {"medium", "short"}

\* what the user types at the feedback prompt
FeedbackInputs ==
    {<<>>, <<"E","X","I","T">>, <<"q","u","i","t">>, <<"n","e","w">>,
     <<" ","S","t","a","r","t"," ","o","v","e","r">>,
     <<"m","a","k","e"," ","i","t"," ","l","o","n","g","e","r">>}

\* the responses of the calls of categorize_request, of the story call of
\* generate_story, of the story call of revise_story and of _classify_feedback
WfCategorizeResponses ==
    {<<" ","M","a","g","i","c","a","l","\n">>, <<"f","u","n">>}

WfStoryResponses ==
    {Quote \o TheBraveMouse \o Quote \o <<"\n","\n","O","n","c","e",".">>,
     TitleMarker \o <<" ","M","i","a","\n","E","n","d",".">>}

\* the response of the story call of a revision: a bare title
WfRevisionResponses ==
    {<<"N","i","g","h","t","\n","\n","S","l","e","e","p",".">>}

WfClassifyResponses ==
    {LabelStoryModification, <<" ","G","e","n","e","r","a","l","_","c","h","a","t","\n">>,
     <<"b","o","t","h">>}

GoodObject(overall, engagement, needs_revision) ==
    MkObject(<<PyInt(overall), PyInt(9), PyInt(engagement), PyInt(8), PyInt(7),
               PyList(<<"Warm tone">>), PyList(<<"Pacing">>),
               PyList(<<"Add a lullaby">>), PyBool(needs_revision)>>)

\* the responses of the evaluation call
WfJudgeResponses ==
    {[syntax |-> "json", value |-> GoodObject(9, 9, FALSE)],
     [syntax |-> "json", value |-> GoodObject(9, 9, TRUE)],
     [syntax |-> "json", value |-> GoodObject(6, 9, FALSE)],
     [syntax |-> "json", value |-> GoodObject(11, 9, FALSE)],
     [syntax |-> "json", value |-> PyList(<<>>)],
     [syntax |-> "json", value |-> PyDict([k \in {"overall_score"} |-> PyInt(3)])],
     [syntax |-> "rejected", value |-> PyNull]}

-----------------------------------------------------------------------------
(* StoryWorkflow._revise_story, applied to one WorkflowState.                *)

MakeItLonger == <<"m","a","k","e"," ","i","t"," ","l","o","n","g","e","r">>

\* a WorkflowState at the revise_story node and the response of the story call
ReviseNodeInput(rc, uf, ev, hist, sr) ==
    [op |-> "revise_node",
     state |->
        [story_request |-> <<MkStoryRequest(ShyRobot, "medium")>>,
         current_story |-> <<OriginalStory("animal")>>,
         evaluation |-> <<ev>>,
         user_feedback |-> uf,
         revision_count |-> rc,
         conversation_state |->
            [NewConversationState EXCEPT !.story_history = hist,
                                         !.revision_count = rc],
         should_continue |-> TRUE,
         final_story |-> <<>>],
     story |-> sr]

ApplyReviseNode ==
    /\ tOp = "ready" /\ tIn.op = "revise_node"
    /\ tOut' = [state |-> NodeReviseStory(tIn.state, tIn.story,
                                          CharactersResponse, MoralResponse),
                guidance |-> RevisionGuidance(tIn.state)]
    /\ tOp' = "done"
    /\ UNCHANGED tIn

-----------------------------------------------------------------------------
(* main.py: the shell.                                                       *)

\* the run_chat_session calls and the feedback texts one run of the process
\* is followed for
MaxSessions == 2
MaxTurns    == 3

\* the bookkeeping of the shell: the credential, what process_user_feedback
\* returned and called, and the commands entered
auxVars ==
    <<credential, feedbackType, calls, newStoryPending, quitEntered, errorShown>>

mainVars ==
    <<pc, wf, cs, story, userFeedback, revisedStory, revisionNotes, trace,
      evaluated, allFlagged, sessions, turns, auxVars>>

vars == <<mainVars, textVars, judgeVars, srVars>>

\* os.getenv("OPENAI_API_KEY"): unset, set to the empty string, or set
ApiKeyUnset == <<>>
ApiKeyEmpty == <<<<>>>>
ApiKeySet   == <<<<"s","k","-","1">>>>

ApiKeyValues == {ApiKeyUnset, ApiKeyEmpty, ApiKeySet}

\* `not api_key`: None and the empty string are false
KeyMissing(api_key) == api_key = <<>> \/ api_key[1] = <<>>

\* StorytellerAgent.__init__
StorytellerAgentInit(api_key) ==
    IF KeyMissing(api_key) THEN Raised("ValueError") ELSE Value("StorytellerAgent")

\* JudgeAgent.__init__
JudgeAgentInit(api_key) ==
    IF KeyMissing(api_key) THEN Raised("ValueError") ELSE Value("JudgeAgent")

\* FeedbackProcessor.__init__
FeedbackProcessorInit(api_key) ==
    IF KeyMissing(api_key) THEN Raised("ValueError") ELSE Value("FeedbackProcessor")

\* StoryWorkflow.__init__: the check, then the storyteller and the judge
StoryWorkflowInit(api_key) ==
    IF KeyMissing(api_key) THEN Raised("ValueError")
    ELSE IF StorytellerAgentInit(api_key).exc # "none"
    THEN StorytellerAgentInit(api_key)
    ELSE IF JudgeAgentInit(api_key).exc # "none"
    THEN JudgeAgentInit(api_key)
    ELSE Value("StoryWorkflow")

\* A variant of ShellInit: the shell is constructed without the credential
\* being looked at.
ShellInit_NoCheck(api_key) == Value("BedtimeStoryChatInterface")

\* BedtimeStoryChatInterface.__init__: the check, then the workflow and the
\* feedback processor
ShellInit(api_key) ==
    IF KeyMissing(api_key) THEN Raised("ValueError")
    ELSE IF StoryWorkflowInit(api_key).exc # "none"
    THEN StoryWorkflowInit(api_key)
    ELSE IF FeedbackProcessorInit(api_key).exc # "none"
    THEN FeedbackProcessorInit(api_key)
    ELSE Value("BedtimeStoryChatInterface")

MainIdle ==
    /\ pc = "idle" /\ wf = NoWorkflow /\ cs = NewConversationState
    /\ story = <<>> /\ userFeedback = <<>> /\ revisedStory = <<>>
    /\ revisionNotes = <<>> /\ trace = <<>> /\ allFlagged = TRUE
    /\ evaluated = <<>> /\ errorShown = "none"
    /\ sessions = 0 /\ turns = 0
    /\ credential = ApiKeySet /\ feedbackType = <<>> /\ calls = <<>>
    /\ newStoryPending = FALSE /\ quitEntered = FALSE

\* main, lines 335-346, and run, lines 301-313: the shell is constructed; a
\* ValueError ends the process with the setup panel, else the first session
\* starts
MainStart ==
    /\ pc = "start"
    /\ pc' = IF ShellInit(credential).exc = "none"
             THEN "request_prompt" ELSE "config_error"
    /\ UNCHANGED <<wf, cs, story, userFeedback, revisedStory, revisionNotes,
                   trace, evaluated, allFlagged, sessions, turns, auxVars>>

\* BedtimeStoryChatInterface.process_command: what it returns and the
\* ConversationState it leaves
ProcessCommand(command_text, conversation_state) ==
    LET command == Strip(Lower(command_text))
    IN  IF command \in CmdQuit
        THEN [handled |-> TRUE, conversation_state |-> conversation_state]
        ELSE IF command \in CmdNewStory
        THEN [handled |-> FALSE, conversation_state |-> NewConversationState]
        ELSE [handled |-> FALSE, conversation_state |-> conversation_state]

\* run_chat_session, lines 220-237: the story request is read, a command is
\* processed, the length is asked for and the workflow is started
ShellRequest ==
    /\ pc = "request_prompt"
    /\ sessions < MaxSessions
    /\ sessions' = sessions + 1
    /\ \E typed \in RequestInputs, length \in LengthChoices :
         LET story_request == Strip(typed)
             cmd == ProcessCommand(story_request, cs)
         IN  IF story_request = <<>>
             THEN /\ pc' = "confirm"
                  /\ UNCHANGED <<wf, cs, newStoryPending, quitEntered>>
             ELSE IF cmd.handled
             THEN /\ pc' = "confirm"
                  /\ cs' = cmd.conversation_state
                  /\ quitEntered' = TRUE
                  /\ UNCHANGED <<wf, newStoryPending>>
             ELSE /\ pc' = "generate_story"
                  /\ cs' = cmd.conversation_state
                  /\ wf' = InitialState(story_request, length)
                  /\ newStoryPending' =
                        (newStoryPending \/ Strip(Lower(story_request)) \in CmdNewStory)
                  /\ UNCHANGED quitEntered
    /\ trace' = <<>>
    /\ evaluated' = <<>>
    /\ allFlagged' = TRUE
    /\ UNCHANGED <<story, userFeedback, revisedStory, revisionNotes, turns,
                   credential, errorShown, feedbackType, calls>>

\* an exception leaves workflow.invoke: run_chat_session's handler is next
WorkflowRaises ==
    /\ pc' = "generation_failed"
    /\ wf' = NoWorkflow
    /\ trace' = <<>>
    /\ evaluated' = <<>>
    /\ allFlagged' = TRUE
    /\ revisionNotes' = <<>>
    /\ UNCHANGED <<cs, story, userFeedback, revisedStory, sessions, turns,
                   auxVars>>

\* node generate_story, its completion calls returning
GenerateStoryStep ==
    /\ pc = "generate_story"
    /\ \E catResp \in WfCategorizeResponses, storyResp \in WfStoryResponses :
          wf' = NodeGenerateStory(wf, catResp, storyResp,
                                  CharactersResponse, MoralResponse)
    /\ pc' = "evaluate_story"
    /\ trace' = Append(trace, "generate_story")
    /\ UNCHANGED evaluated
    /\ UNCHANGED <<cs, story, userFeedback, revisedStory, revisionNotes,
                   allFlagged, sessions, turns, auxVars>>

\* node generate_story
WfGenerateStory ==
    \/ GenerateStoryStep
    \/ \* a completion call of generate_story fails
       /\ pc = "generate_story"
       /\ WorkflowRaises

\* node evaluate_story, its completion call returning
EvaluateStoryStep ==
    /\ pc = "evaluate_story"
    /\ \E response \in WfJudgeResponses :
         \E outcome \in EvaluateStory(response) :
            IF outcome.kind = "Evaluation"
            THEN /\ wf' = NodeEvaluateStory(wf, outcome)
                 /\ pc' = "should_revise"
                 /\ trace' = Append(trace, "evaluate_story")
                 /\ evaluated' = <<[story |-> wf.current_story[1],
                                    evaluation |-> outcome]>>
                 /\ allFlagged' = (allFlagged /\ outcome.needs_revision)
                 /\ revisionNotes' = <<>>
                 /\ UNCHANGED <<cs, story, userFeedback, revisedStory,
                                sessions, turns, auxVars>>
            ELSE WorkflowRaises

\* node evaluate_story
WfEvaluateStory ==
    \/ EvaluateStoryStep
    \/ \* the evaluation call fails
       /\ pc = "evaluate_story"
       /\ WorkflowRaises

\* the conditional edge after evaluate_story
WfShouldRevise ==
    /\ pc = "should_revise"
    /\ pc' = IF WorkflowShouldRevise(wf) = "revise"
             THEN "revise_story" ELSE "finalize_story"
    /\ UNCHANGED <<wf, cs, story, userFeedback, revisedStory, revisionNotes,
                   trace, evaluated, allFlagged, sessions, turns, auxVars>>

\* node revise_story, its completion calls returning
ReviseStoryStep ==
    /\ pc = "revise_story"
    /\ \E storyResp \in WfRevisionResponses :
          wf' = NodeReviseStory(wf, storyResp, CharactersResponse,
                                MoralResponse)
    /\ pc' = "evaluate_story"
    /\ trace' = Append(trace, "revise_story")
    /\ UNCHANGED evaluated
    /\ revisionNotes' = <<RevisionGuidance(wf)>>
    /\ UNCHANGED <<cs, story, userFeedback, revisedStory, allFlagged,
                   sessions, turns, auxVars>>

\* node revise_story
WfReviseStory ==
    \/ ReviseStoryStep
    \/ \* a completion call of revise_story fails
       /\ pc = "revise_story"
       /\ WorkflowRaises

\* node finalize_story
WfFinalizeStory ==
    /\ pc = "finalize_story"
    /\ wf' = NodeFinalizeStory(wf)
    /\ pc' = "END"
    /\ trace' = Append(trace, "finalize_story")
    /\ UNCHANGED evaluated
    /\ UNCHANGED <<cs, story, userFeedback, revisedStory, revisionNotes,
                   allFlagged, sessions, turns, auxVars>>

\* run_chat_session, lines 240-249: generate_story returns result["final_story"],
\* the story is displayed and stored in the shell's ConversationState
ShellStoryReturned ==
    /\ pc = "END"
    /\ story' = wf.final_story
    /\ cs' = [cs EXCEPT !.current_story = wf.final_story]
    /\ wf' = NoWorkflow
    /\ trace' = <<>>
    /\ evaluated' = <<>>
    /\ allFlagged' = TRUE
    /\ pc' = "feedback_prompt"
    /\ newStoryPending' = FALSE
    /\ UNCHANGED <<userFeedback, revisedStory, revisionNotes, sessions, turns,
                   credential, errorShown, feedbackType, calls, quitEntered>>

\* A variant of ShellGenerationError: the error of the generation ends the
\* process.
ShellGenerationError_Exits ==
    /\ pc = "generation_failed"
    /\ pc' = "exited"
    /\ errorShown' = "generation"
    /\ UNCHANGED <<wf, cs, story, userFeedback, revisedStory, revisionNotes,
                   trace, evaluated, allFlagged, sessions, turns, credential,
                   feedbackType, calls, newStoryPending, quitEntered>>

\* run_chat_session, lines 295-297: the error of the generation is reported
ShellGenerationError ==
    /\ pc = "generation_failed"
    /\ pc' = "confirm"
    /\ errorShown' = "generation"
    /\ UNCHANGED <<wf, cs, story, userFeedback, revisedStory, revisionNotes,
                   trace, evaluated, allFlagged, sessions, turns, credential,
                   feedbackType, calls, newStoryPending, quitEntered>>

\* BedtimeStoryChatInterface.get_user_feedback: None, 'quit', 'new_story' or
\* the text
GetUserFeedback(typed) ==
    LET text == Strip(typed)
    IN  IF text = <<>> THEN [kind |-> "None", text |-> <<>>]
        ELSE IF Lower(text) \in CmdQuit THEN [kind |-> "quit", text |-> <<>>]
        ELSE IF Lower(text) \in CmdNewStory
        THEN [kind |-> "new_story", text |-> <<>>]
        ELSE [kind |-> "feedback", text |-> text]

\* run_chat_session, lines 252-261: the feedback is read; the loop is left on
\* no feedback, quit and new_story
ShellFeedback ==
    /\ pc = "feedback_prompt"
    /\ \E typed \in FeedbackInputs :
         LET got == GetUserFeedback(typed)
         IN  IF got.kind = "feedback"
             THEN /\ turns < MaxTurns
                  /\ turns' = turns + 1
                  /\ userFeedback' = <<got.text>>
                  /\ pc' = "process_user_feedback"
                  /\ UNCHANGED <<newStoryPending, quitEntered>>
             ELSE /\ pc' = "confirm"
                  /\ newStoryPending' = (newStoryPending \/ got.kind = "new_story")
                  /\ quitEntered' = (quitEntered \/ got.kind = "quit")
                  /\ UNCHANGED <<turns, userFeedback>>
    /\ errorShown' = "none"
    /\ UNCHANGED <<wf, cs, story, revisedStory, revisionNotes, trace, evaluated,
                   allFlagged, sessions, credential, feedbackType, calls>>

\* an exception leaves the try block of the feedback loop (line 291)
FeedbackRaises ==
    /\ pc' = "feedback_failed"
    /\ UNCHANGED <<wf, cs, story, trace, evaluated, allFlagged, sessions, turns,
                   userFeedback, credential, errorShown, newStoryPending,
                   quitEntered>>

\* a call with the feedback text it is given
Call(name, feedback) == [call |-> name, feedback |-> feedback]

\* A variant of ProcessUserFeedbackCall: a general_chat feedback is counted
\* as a revision.
ProcessUserFeedbackCall_ChatCounts(original_story, feedback, conversation_state, classifyResp, storyResp, charResp, moralResp) ==
    LET feedback_type == ClassifyFeedback(classifyResp)
        revised_story == ReviseStory(original_story, feedback, storyResp,
                                     charResp, moralResp)
    IN  IF feedback_type = LabelGeneralChat
        THEN [revised_story |-> <<>>, feedback_type |-> feedback_type,
              conversation_state |->
                  [conversation_state EXCEPT !.revision_count = @ + 1],
              calls |-> <<Call("_classify_feedback", feedback),
                          Call("handle_general_chat", feedback)>>]
        ELSE [revised_story |-> <<revised_story>>,
              feedback_type |-> feedback_type,
              conversation_state |->
                  [conversation_state EXCEPT
                      !.story_history = Append(@, original_story),
                      !.revision_count = @ + 1,
                      !.current_story = <<revised_story>>],
              calls |-> <<Call("_classify_feedback", feedback),
                          Call("revise_story", feedback),
                          Call("evaluate_modification", feedback)>>]

\* A variant of ProcessUserFeedbackCall: the cap of 2 revisions is applied to
\* feedback as well.
ProcessUserFeedbackCall_Capped(original_story, feedback, conversation_state, classifyResp, storyResp, charResp, moralResp) ==
    LET feedback_type == ClassifyFeedback(classifyResp)
        revised_story == ReviseStory(original_story, feedback, storyResp,
                                     charResp, moralResp)
    IN  IF feedback_type = LabelGeneralChat
        THEN [revised_story |-> <<>>, feedback_type |-> feedback_type,
              conversation_state |-> conversation_state,
              calls |-> <<Call("_classify_feedback", feedback),
                          Call("handle_general_chat", feedback)>>]
        ELSE IF conversation_state.revision_count >= 2
        THEN [revised_story |-> <<original_story>>,
              feedback_type |-> feedback_type,
              conversation_state |-> conversation_state,
              calls |-> <<Call("_classify_feedback", feedback)>>]
        ELSE [revised_story |-> <<revised_story>>,
              feedback_type |-> feedback_type,
              conversation_state |->
                  [conversation_state EXCEPT
                      !.story_history = Append(@, original_story),
                      !.revision_count = @ + 1,
                      !.current_story = <<revised_story>>],
              calls |-> <<Call("_classify_feedback", feedback),
                          Call("revise_story", feedback),
                          Call("evaluate_modification", feedback)>>]

\* A variant of ProcessUserFeedbackCall: the story that is replaced is not
\* kept.
ProcessUserFeedbackCall_NoHistory(original_story, feedback, conversation_state, classifyResp, storyResp, charResp, moralResp) ==
    LET feedback_type == ClassifyFeedback(classifyResp)
        revised_story == ReviseStory(original_story, feedback, storyResp,
                                     charResp, moralResp)
    IN  IF feedback_type = LabelGeneralChat
        THEN [revised_story |-> <<>>, feedback_type |-> feedback_type,
              conversation_state |-> conversation_state,
              calls |-> <<Call("_classify_feedback", feedback),
                          Call("handle_general_chat", feedback)>>]
        ELSE [revised_story |-> <<revised_story>>,
              feedback_type |-> feedback_type,
              conversation_state |->
                  [conversation_state EXCEPT
                      !.revision_count = @ + 1,
                      !.current_story = <<revised_story>>],
              calls |-> <<Call("_classify_feedback", feedback),
                          Call("revise_story", feedback),
                          Call("evaluate_modification", feedback)>>]

\* StoryWorkflow.process_user_feedback, every call of it returning: the tuple
\* it returns, the ConversationState it leaves and the calls it makes, in
\* their order
ProcessUserFeedbackCall(original_story, feedback, conversation_state, classifyResp, storyResp, charResp, moralResp) ==
    LET feedback_type == ClassifyFeedback(classifyResp)
        revised_story == ReviseStory(original_story, feedback, storyResp,
                                     charResp, moralResp)
    IN  IF feedback_type = LabelGeneralChat
        THEN [revised_story |-> <<>>, feedback_type |-> feedback_type,
              conversation_state |-> conversation_state,
              calls |-> <<Call("_classify_feedback", feedback),
                          Call("handle_general_chat", feedback)>>]
        ELSE [revised_story |-> <<revised_story>>,
              feedback_type |-> feedback_type,
              conversation_state |->
                  [conversation_state EXCEPT
                      !.story_history = Append(@, original_story),
                      !.revision_count = @ + 1,
                      !.current_story = <<revised_story>>],
              calls |-> <<Call("_classify_feedback", feedback),
                          Call("revise_story", feedback),
                          Call("evaluate_modification", feedback)>>]

\* StoryWorkflow.process_user_feedback(story, feedback, self.conversation_state),
\* every call returning
ProcessUserFeedbackStep ==
    /\ pc = "process_user_feedback"
    /\ \E classifyResp \in WfClassifyResponses, storyResp \in WfRevisionResponses :
         LET r == ProcessUserFeedbackCall(story[1], userFeedback[1], cs,
                                          classifyResp, storyResp,
                                          CharactersResponse, MoralResponse)
         IN  /\ cs' = r.conversation_state
             /\ revisedStory' = r.revised_story
             /\ feedbackType' = r.feedback_type
             /\ calls' = r.calls
             /\ revisionNotes' = IF r.feedback_type = LabelGeneralChat
                                 THEN <<>> ELSE userFeedback
             /\ pc' = IF r.feedback_type = LabelGeneralChat
                      THEN "chat_response" ELSE "modification"
    /\ UNCHANGED <<wf, story, trace, evaluated, allFlagged, sessions, turns,
                   userFeedback, credential, errorShown, newStoryPending,
                   quitEntered>>

\* process_user_feedback with one of its calls failing: the calls before it
\* were made, the ConversationState is as it was
ProcessUserFeedbackFails ==
    /\ pc = "process_user_feedback"
    /\ \E classifyResp \in WfClassifyResponses, storyResp \in WfRevisionResponses :
         LET r == ProcessUserFeedbackCall(story[1], userFeedback[1], cs,
                                          classifyResp, storyResp,
                                          CharactersResponse, MoralResponse)
         IN  \E k \in 1..Len(r.calls) :
                /\ calls' = SubSeq(r.calls, 1, k)
                /\ feedbackType' = IF k = 1 THEN <<>> ELSE r.feedback_type
                /\ revisionNotes' =
                      IF k >= 2 /\ r.feedback_type = LabelStoryModification
                      THEN userFeedback ELSE <<>>
    /\ FeedbackRaises
    /\ UNCHANGED revisedStory

\* StoryWorkflow.process_user_feedback(story, feedback, self.conversation_state)
ProcessUserFeedback ==
    \/ ProcessUserFeedbackStep
    \/ ProcessUserFeedbackFails

\* run_chat_session, lines 269-271: the chat response is displayed
ShellChatResponse ==
    /\ pc = "chat_response"
    /\ pc' = "feedback_prompt"
    /\ userFeedback' = <<>>
    /\ feedbackType' = <<>>
    /\ calls' = <<>>
    /\ UNCHANGED <<wf, cs, story, revisedStory, revisionNotes, trace, evaluated,
                   allFlagged, sessions, turns, credential, errorShown,
                   newStoryPending,
                   quitEntered>>

\* run_chat_session, lines 273-289, every call returning: the modification is
\* evaluated again and displayed, and the revised story becomes the current one
ShellModificationStep ==
    /\ pc = "modification"
    /\ revisionNotes' = <<>>
    /\ story' = revisedStory
    /\ cs' = [cs EXCEPT !.current_story = revisedStory]
    /\ pc' = "feedback_prompt"
    /\ userFeedback' = <<>>
    /\ revisedStory' = <<>>
    /\ feedbackType' = <<>>
    /\ calls' = <<>>
    /\ UNCHANGED <<wf, trace, evaluated, allFlagged, sessions, turns,
                   credential, errorShown,
                   newStoryPending, quitEntered>>

\* run_chat_session, lines 273-289
ShellModification ==
    \/ ShellModificationStep
    \/ \* the call of evaluate_modification fails, or its JSON is no object
       \* and display_modification_summary raises
       /\ pc = "modification"
       /\ revisionNotes' = <<>>
       /\ calls' = Append(calls, Call("evaluate_modification", userFeedback[1]))
       /\ FeedbackRaises
       /\ UNCHANGED <<revisedStory, feedbackType>>

\* run_chat_session, lines 291-293: the error of the feedback is reported and
\* the loop goes on
ShellFeedbackError ==
    /\ pc = "feedback_failed"
    /\ pc' = "feedback_prompt"
    /\ userFeedback' = <<>>
    /\ revisedStory' = <<>>
    /\ revisionNotes' = <<>>
    /\ feedbackType' = <<>>
    /\ calls' = <<>>
    /\ errorShown' = "feedback"
    /\ UNCHANGED <<wf, cs, story, trace, evaluated, allFlagged, sessions, turns,
                   credential, newStoryPending, quitEntered>>

\* run, lines 320-322: another story, or the end
ShellConfirm ==
    /\ pc = "confirm"
    /\ \/ pc' = "request_prompt"
       \/ pc' = "exited"
    /\ errorShown' = "none"
    /\ UNCHANGED <<wf, cs, story, userFeedback, revisedStory, revisionNotes,
                   trace, evaluated, allFlagged, sessions, turns, credential,
                   feedbackType, calls, newStoryPending, quitEntered>>

\* run, lines 324-326: Ctrl-C at a prompt ends the process
KeyboardInterrupt ==
    /\ pc \in {"request_prompt", "feedback_prompt", "confirm"}
    /\ pc' = "exited"
    /\ errorShown' = "none"
    /\ UNCHANGED <<wf, cs, story, userFeedback, revisedStory, revisionNotes,
                   trace, evaluated, allFlagged, sessions, turns, credential,
                   feedbackType, calls, newStoryPending, quitEntered>>

-----------------------------------------------------------------------------
(* The process, from main on.                                                *)

Init ==
    /\ pc = "start" /\ wf = NoWorkflow /\ cs = NewConversationState
    /\ story = <<>> /\ userFeedback = <<>> /\ revisedStory = <<>>
    /\ revisionNotes = <<>> /\ trace = <<>> /\ allFlagged = TRUE
    /\ evaluated = <<>> /\ errorShown = "none"
    /\ sessions = 0 /\ turns = 0
    /\ credential \in ApiKeyValues /\ feedbackType = <<>> /\ calls = <<>>
    /\ newStoryPending = FALSE /\ quitEntered = FALSE
    /\ TextIdle /\ JudgeIdle /\ SrIdle

Next ==
    \/ (MainStart /\ UNCHANGED <<textVars, judgeVars, srVars>>)
    \/ (ShellRequest /\ UNCHANGED <<textVars, judgeVars, srVars>>)
    \/ (WfGenerateStory /\ UNCHANGED <<textVars, judgeVars, srVars>>)
    \/ (WfEvaluateStory /\ UNCHANGED <<textVars, judgeVars, srVars>>)
    \/ (WfShouldRevise /\ UNCHANGED <<textVars, judgeVars, srVars>>)
    \/ (WfReviseStory /\ UNCHANGED <<textVars, judgeVars, srVars>>)
    \/ (WfFinalizeStory /\ UNCHANGED <<textVars, judgeVars, srVars>>)
    \/ (ShellStoryReturned /\ UNCHANGED <<textVars, judgeVars, srVars>>)
    \/ (ShellGenerationError /\ UNCHANGED <<textVars, judgeVars, srVars>>)
    \/ (ShellFeedback /\ UNCHANGED <<textVars, judgeVars, srVars>>)
    \/ (ProcessUserFeedback /\ UNCHANGED <<textVars, judgeVars, srVars>>)
    \/ (ShellChatResponse /\ UNCHANGED <<textVars, judgeVars, srVars>>)
    \/ (ShellModification /\ UNCHANGED <<textVars, judgeVars, srVars>>)
    \/ (ShellFeedbackError /\ UNCHANGED <<textVars, judgeVars, srVars>>)
    \/ (ShellConfirm /\ UNCHANGED <<textVars, judgeVars, srVars>>)
    \/ (KeyboardInterrupt /\ UNCHANGED <<textVars, judgeVars, srVars>>)

Spec == Init /\ [][Next]_vars

(* The process when every completion call returns: no call fails, and the    *)
(* graph runs each node that is due.                                         *)

NextReturns ==
    \/ (MainStart /\ UNCHANGED <<textVars, judgeVars, srVars>>)
    \/ (ShellRequest /\ UNCHANGED <<textVars, judgeVars, srVars>>)
    \/ (GenerateStoryStep /\ UNCHANGED <<textVars, judgeVars, srVars>>)
    \/ (EvaluateStoryStep /\ UNCHANGED <<textVars, judgeVars, srVars>>)
    \/ (WfShouldRevise /\ UNCHANGED <<textVars, judgeVars, srVars>>)
    \/ (ReviseStoryStep /\ UNCHANGED <<textVars, judgeVars, srVars>>)
    \/ (WfFinalizeStory /\ UNCHANGED <<textVars, judgeVars, srVars>>)
    \/ (ShellStoryReturned /\ UNCHANGED <<textVars, judgeVars, srVars>>)
    \/ (ShellGenerationError /\ UNCHANGED <<textVars, judgeVars, srVars>>)
    \/ (ShellFeedback /\ UNCHANGED <<textVars, judgeVars, srVars>>)
    \/ (ProcessUserFeedbackStep /\ UNCHANGED <<textVars, judgeVars, srVars>>)
    \/ (ShellChatResponse /\ UNCHANGED <<textVars, judgeVars, srVars>>)
    \/ (ShellModificationStep /\ UNCHANGED <<textVars, judgeVars, srVars>>)
    \/ (ShellConfirm /\ UNCHANGED <<textVars, judgeVars, srVars>>)
    \/ (KeyboardInterrupt /\ UNCHANGED <<textVars, judgeVars, srVars>>)

\* the positions of the process inside workflow.invoke: a node (or the
\* conditional edge) is due, or END is reached
WorkflowNodes ==
    {"generate_story", "evaluate_story", "should_revise", "revise_story",
     "finalize_story"}

WorkflowPositions == WorkflowNodes \cup {"END"}

\* the graph runs the node that is due: the position moves on, to the next
\* node, to END, or out of the workflow with the exception raised
NodeLeft ==
    /\ pc \in WorkflowNodes
    /\ pc' \in (WorkflowPositions \cup {"generation_failed"}) \ {pc}

SpecReturns ==
    /\ Init
    /\ [][NextReturns]_vars
    /\ WF_pc(NodeLeft)

(* The storyteller and the classifier, each applied to one response.         *)

InitText ==
    /\ MainIdle /\ JudgeIdle /\ SrIdle
    /\ tOp = "ready" /\ tOut = Idle
    /\ \/ \E l \in LeadPieces, b \in ClassifyBases, st \in CaseStyles,
             t \in TrailPieces :
             tIn = ClassifyInput(l, b, st, t)
       \/ \E l \in LeadPieces, b \in CategorizeBases, st \in CaseStyles,
             t \in TrailPieces :
             tIn = CategorizeInput(l, b, st, t)
       \/ \E f \in TitleForms, g \in GapPieces, l \in LeadOfStory,
             t \in TrailOfTitle, r \in RestPieces :
             \E x \in TitleTexts(f) :
                \/ \E rc \in RequestCategories, b \in GenerateCatBases :
                      tIn = GenerateInput(rc, b, StoryResponse(f, x, g, l, t, r))
                \/ \E c \in StoryCategory, fb \in FeedbackTexts :
                      tIn = ReviseInput(c, fb, StoryResponse(f, x, g, l, t, r))
       \* state["user_feedback"]: None, the empty string, a text
       \/ \E rc \in 0..2,
             uf \in {<<>>, <<<<>>>>, <<MakeItLonger>>},
             ev \in {FallbackEvaluation, SampleEvaluation(5, 5, 5, 5, 5, TRUE)},
             hist \in {<<>>, <<OriginalStory("magical")>>},
             sr \in WfStoryResponses \cup WfRevisionResponses :
             tIn = ReviseNodeInput(rc, uf, ev, hist, sr)

NextText ==
    \/ (ApplyClassify /\ UNCHANGED <<mainVars, judgeVars, srVars>>)
    \/ (ApplyCategorize /\ UNCHANGED <<mainVars, judgeVars, srVars>>)
    \/ (ApplyGenerate /\ UNCHANGED <<mainVars, judgeVars, srVars>>)
    \/ (ApplyRevise /\ UNCHANGED <<mainVars, judgeVars, srVars>>)
    \/ (ApplyReviseNode /\ UNCHANGED <<mainVars, judgeVars, srVars>>)

SpecText == InitText /\ [][NextText]_vars

(* JudgeAgent.evaluate_story, applied to one response.                       *)

InitJudge ==
    /\ MainIdle /\ TextIdle /\ SrIdle
    /\ jOut = Idle
    /\ \/ jIn \in NonObjectResponses
       \/ \E o \in OverallSamples, a \in AgeSamples, g \in EngagementSamples,
             e \in EducationalSamples, c \in CreativitySamples,
             s \in StrengthsSamples, i \in AreasSamples,
             u \in SuggestionsSamples, n \in NeedsRevisionSamples :
             jIn = ObjectResponse(<<o, a, g, e, c, s, i, u, n>>)

NextJudge == ApplyEvaluate /\ UNCHANGED <<mainVars, textVars, srVars>>

SpecJudge == InitJudge /\ [][NextJudge]_vars

(* JudgeAgent.should_revise, applied to one Evaluation.                      *)

InitShouldRevise ==
    /\ MainIdle /\ TextIdle /\ JudgeIdle
    /\ sOut = "idle"
    /\ \E o \in ScoreMin..ScoreMax, a \in ScoreMin..ScoreMax,
          g \in ScoreMin..ScoreMax, e \in ScoreMin..ScoreMax,
          c \in ScoreMin..ScoreMax, n \in BOOLEAN :
          sEval = SampleEvaluation(o, a, g, e, c, n)

NextShouldRevise == ApplyShouldRevise /\ UNCHANGED <<mainVars, textVars, judgeVars>>

SpecShouldRevise == InitShouldRevise /\ [][NextShouldRevise]_vars

-----------------------------------------------------------------------------
(* The claims.                                                               *)

RECURSIVE Count(_, _)
Count(seq, x) ==
    IF seq = <<>> THEN 0
    ELSE (IF Head(seq) = x THEN 1 ELSE 0) + Count(Tail(seq), x)

IsPrefix(p, q) == Len(p) <= Len(q) /\ SubSeq(q, 1, Len(p)) = p

\* C1: in a run of generate_story the node revise_story executes at most 2
\* times, whatever the judge returns: the run's trace holds at most 2
\* revise_story steps, and neither revision counter of the workflow passes 2.
C1_AtMostTwoRevisions ==
    /\ Count(trace, "revise_story") <= 2
    /\ wf.revision_count <= 2
    /\ wf.conversation_state.revision_count <= 2

\* C1, witness: a run is finalized after 2 revisions.
C1_Witness ==
    /\ pc = "END"
    /\ Count(trace, "revise_story") = 2
    /\ wf.revision_count = 2

FlaggedPath ==
    <<"generate_story", "evaluate_story", "revise_story", "evaluate_story",
      "revise_story", "evaluate_story", "finalize_story">>

\* C2: while every Evaluation the judge has returned in a run has
\* needs_revision set, the run follows GENERATE, EVALUATE, REVISE, EVALUATE,
\* REVISE, EVALUATE, FINALIZE, and when it has finalized it has executed that
\* whole path: exactly 2 revisions.
C2_AlwaysFlaggedPath ==
    allFlagged =>
        /\ IsPrefix(trace, FlaggedPath)
        /\ pc = "END" =>
              /\ trace = FlaggedPath
              /\ wf.revision_count = 2
              /\ wf.final_story = wf.current_story

\* C2, witness: a run whose three Evaluations all had needs_revision set has
\* been finalized.
C2_Witness ==
    /\ pc = "END"
    /\ allFlagged
    /\ Count(trace, "evaluate_story") = 3
    /\ wf.evaluation[1].needs_revision

\* C3: with the default threshold, should_revise is false exactly when
\* needs_revision is false and overall >= 7 and age-appropriateness >= 6 and
\* engagement >= 6; educational value and creativity do not enter.
C3_ShouldReviseTable ==
    sOut # "idle" =>
        (sOut = "keep") =
            (/\ ~sEval.needs_revision
             /\ sEval.overall_score >= 7
             /\ sEval.age_appropriateness >= 6
             /\ sEval.engagement_level >= 6)

\* C3, witness: overall 6, age-appropriateness 9, engagement 9 and
\* needs_revision false give true.
C3_Witness ==
    /\ sOut = "revise"
    /\ ~sEval.needs_revision
    /\ sEval.overall_score = 6
    /\ sEval.age_appropriateness = 9
    /\ sEval.engagement_level = 9

\* the response is an object that lacks one of the nine keys
MissesKey(response) ==
    /\ response.syntax = "json"
    /\ response.value.t = "dict"
    /\ \E k \in 1..Len(EvaluationKeys) :
          EvaluationKeys[k] \notin DOMAIN response.value.v

\* C4: a response that is not valid JSON, or that is a JSON object lacking
\* overall_score or another of the nine keys, makes evaluate_story return
\* exactly the fallback Evaluation.
C4_MalformedGivesFallback ==
    (jOut # Idle /\ (jIn.syntax # "json" \/ MissesKey(jIn)))
        => jOut = FallbackEvaluation

\* C5: whatever text the evaluation call returns, evaluate_story returns an
\* Evaluation and raises nothing.
C5_NeverRaises ==
    jOut # Idle => jOut.kind = "Evaluation"

\* C6: every Evaluation evaluate_story returns, parsed or fallback, has its
\* five scores in 1..10.
C6_ScoresInRange ==
    (jOut # Idle /\ jOut.kind = "Evaluation") =>
        /\ jOut.overall_score \in ScoreMin..ScoreMax
        /\ jOut.age_appropriateness \in ScoreMin..ScoreMax
        /\ jOut.engagement_level \in ScoreMin..ScoreMax
        /\ jOut.educational_value \in ScoreMin..ScoreMax
        /\ jOut.creativity \in ScoreMin..ScoreMax

\* C6, witness: an Evaluation parsed from an object whose overall_score is the
\* largest score.
C6_Witness ==
    /\ jOut # Idle
    /\ jOut.kind = "Evaluation"
    /\ jOut # FallbackEvaluation
    /\ jOut.overall_score = ScoreMax

\* one step: whenever the workflow's current story, the shell's story or the
\* ConversationState's current story is replaced by a revision (automatic or
\* driven by feedback), the new story has the category of the one it
\* replaces, and the story process_user_feedback returns has the category of
\* the story it was given.  Only the return of a newly generated story (the
\* step from END) sets a category afresh.
StepKeepsCategory ==
    /\ (wf.current_story # <<>> /\ wf'.current_story # <<>>)
          => wf'.current_story[1].category = wf.current_story[1].category
    /\ (pc # "END" /\ story # <<>> /\ story' # <<>>)
          => story'[1].category = story[1].category
    /\ (pc # "END" /\ cs.current_story # <<>> /\ cs'.current_story # <<>>)
          => cs'.current_story[1].category = cs.current_story[1].category
    /\ (revisedStory' # <<>> /\ story # <<>>)
          => revisedStory'[1].category = story[1].category

\* C7: revise_story returns a Story with the category of the story it was
\* given, so every step of the process keeps the category: through any
\* sequence of automatic and feedback-driven revisions the current story has
\* the category of the story that was generated.
C7_CategoryPreserved == [][StepKeepsCategory]_vars

\* C7, witness: a story generated as magical has gone through an automatic
\* revision and a feedback-driven one and is the shell's current story.
C7_Witness ==
    /\ pc = "feedback_prompt"
    /\ story # <<>>
    /\ story[1].category = "magical"
    /\ cs.current_story = story
    /\ Len(cs.story_history) >= 1
    /\ cs.story_history[Len(cs.story_history)].category = "magical"
    /\ cs.story_history[Len(cs.story_history)] # story[1]

\* C8: _classify_feedback returns one of the two labels: the response trimmed
\* and lowercased if that is a label, story_modification if not.
C8_ClassifyFeedback ==
    (tOp = "done" /\ tIn.op = "classify") =>
        /\ tOut \in {LabelStoryModification, LabelGeneralChat}
        /\ tOut = IF tIn.base \in {LabelStoryModification, LabelGeneralChat}
                  THEN tIn.base
                  ELSE LabelStoryModification

\* C8, witness: a response that is general_chat only once trimmed and
\* lowercased has been classified as general_chat.
C8_Witness ==
    /\ tOp = "done" /\ tIn.op = "classify"
    /\ tIn.base = LabelGeneralChat
    /\ tIn.text # LabelGeneralChat
    /\ tOut = LabelGeneralChat

\* C9: the title generate_story and revise_story extract is the text between
\* the quotes of a quoted first line, the trimmed text after the marker of a
\* first line starting with Title:, and a bare first line itself.
C9_TitleForms ==
    /\ (tOp = "done" /\ tIn.op = "generate") => tOut.story.title = tIn.story.title
    /\ (tOp = "done" /\ tIn.op = "revise") => tOut.title = tIn.story.title

\* C9, witness: revise_story has read the title after a Title: marker that a
\* space follows.
C9_Witness ==
    /\ tOp = "done" /\ tIn.op = "revise"
    /\ tIn.story.form = "marker"
    /\ tIn.story.title = TheBraveMouse
    /\ StartsWith(Strip(tIn.story.text), TitleMarker \o <<" ">>)
    /\ tOut.title = TheBraveMouse

\* the category a categorization response names once trimmed and lowercased,
\* adventure if it names none
NamedCategory(base) ==
    IF \E c \in StoryCategory : CategoryValue(c) = base
    THEN CHOOSE c \in StoryCategory : CategoryValue(c) = base
    ELSE "adventure"

\* C10: categorize_request returns one of the seven categories: the one the
\* trimmed, lowercased response names, adventure if it names none.
\* generate_story calls it exactly when the request has no category, and the
\* Story has the category the request then holds.
C10_Categorize ==
    /\ (tOp = "done" /\ tIn.op = "categorize") =>
          /\ tOut \in StoryCategory
          /\ tOut = NamedCategory(tIn.base)
    /\ (tOp = "done" /\ tIn.op = "generate") =>
          /\ tOut.categorize_called = (tIn.request_category = None)
          /\ tOut.story.category \in StoryCategory
          /\ tOut.story.category = tOut.request_category
          /\ tOut.story.category =
                IF tIn.request_category = None
                THEN NamedCategory(tIn.catBase)
                ELSE tIn.request_category

\* C10, witness: a request without a category has been categorized from a
\* capitalized response, and the Story has that category.
C10_Witness ==
    /\ tOp = "done" /\ tIn.op = "generate"
    /\ tIn.request_category = None
    /\ tIn.catBase = CategoryValue("mystery")
    /\ tOut.categorize_called
    /\ tOut.story.category = "mystery"

-----------------------------------------------------------------------------
(* The feedback path, the credential and the commands.                       *)

\* a story call of revise_story is among the calls
CallsRevise(made) == \E k \in 1..Len(made) : made[k].call = "revise_story"

\* one step of a feedback classified as general_chat
ChatStepLeavesState ==
    /\ (pc = "process_user_feedback" /\ feedbackType' = LabelGeneralChat) =>
          /\ revisedStory' = <<>>
          /\ cs' = cs
          /\ story' = story
          /\ revisionNotes' = <<>>
          /\ ~CallsRevise(calls')
    /\ pc = "chat_response" => (cs' = cs /\ story' = story)

\* C11: when process_user_feedback classifies the feedback as general_chat it
\* returns no revised story, the ConversationState (current_story,
\* story_history, feedback_history, revision_count) is as before the call,
\* revise_story is not called, and the shell only displays the reply.
C11_ChatLeavesState == [][ChatStepLeavesState]_vars

\* C11, witness: after a modification, a feedback has been classified as
\* general_chat and its reply is about to be displayed.
C11_Witness ==
    /\ pc = "chat_response"
    /\ feedbackType = LabelGeneralChat
    /\ revisedStory = <<>>
    /\ cs.revision_count = 1
    /\ Len(cs.story_history) = 1
    /\ cs.current_story = story

\* one step of a feedback classified as story_modification
ModificationStepRevisesOnce ==
    /\ (/\ pc = "process_user_feedback"
        /\ feedbackType' = LabelStoryModification
        /\ pc' # "feedback_failed") =>
          /\ pc' = "modification"
          /\ calls' = <<Call("_classify_feedback", userFeedback[1]),
                        Call("revise_story", userFeedback[1]),
                        Call("evaluate_modification", userFeedback[1])>>
          /\ revisionNotes' = userFeedback
          /\ revisedStory' # <<>>
          /\ cs'.revision_count = cs.revision_count + 1
          /\ cs'.story_history = Append(cs.story_history, story[1])
          /\ cs'.current_story = revisedStory'
    /\ (pc = "modification" /\ pc' = "feedback_prompt") =>
          /\ story' = revisedStory
          /\ cs'.current_story = revisedStory

\* C12: a feedback classified as story_modification is applied as exactly one
\* revision, whatever revision_count is: revise_story is called once with the
\* feedback text, then evaluate_modification, no should_revise and no cap in
\* between, and the revised story becomes the session's current story.
C12_ModificationUnconditional == [][ModificationStepRevisesOnce]_vars

\* C12, witness: a third modification has been applied, to a ConversationState
\* whose revision_count was 2.
C12_Witness ==
    /\ pc = "modification"
    /\ feedbackType = LabelStoryModification
    /\ cs.revision_count = 3
    /\ Len(cs.story_history) = 3
    /\ cs.current_story = revisedStory

\* C13: without the credential each of the five constructors raises the
\* configuration error, and the process makes no completion call and takes
\* no step of a story generation: it ends at the setup panel.
C13_MissingCredentialIsFatal ==
    /\ \A api_key \in {ApiKeyUnset, ApiKeyEmpty} :
          /\ ShellInit(api_key) = Raised("ValueError")
          /\ StoryWorkflowInit(api_key) = Raised("ValueError")
          /\ StorytellerAgentInit(api_key) = Raised("ValueError")
          /\ JudgeAgentInit(api_key) = Raised("ValueError")
          /\ FeedbackProcessorInit(api_key) = Raised("ValueError")
    /\ KeyMissing(credential) =>
          /\ pc \in {"start", "config_error"}
          /\ wf = NoWorkflow /\ trace = <<>> /\ calls = <<>>
          /\ story = <<>> /\ cs = NewConversationState
          /\ sessions = 0

\* C13, witness: the process has ended at the setup panel, the credential
\* being unset.
C13_Witness ==
    /\ pc = "config_error"
    /\ credential = ApiKeyUnset
    /\ sessions = 0

\* C14: once a new-story command was entered, at either prompt, the next
\* story is generated with the shell's ConversationState reset: no current
\* story, empty histories, revision_count 0.
C14_NewStoryResetsState ==
    (newStoryPending /\ pc \in WorkflowPositions) => cs = NewConversationState

\* C15: once a quit command was entered, at either prompt, the session is
\* over: the process is at the closing confirmation or has ended, and no
\* story request, feedback prompt or completion call follows.
C15_QuitEndsSession ==
    quitEntered => pc \in {"confirm", "exited"}

-----------------------------------------------------------------------------
(* The counters and the shape of a run.                                      *)

\* one step: the counters of the running workflow and of the shell's
\* ConversationState do not go down; the only step that lowers the shell's
\* counter is the reset by a new-story command at the story-request prompt
StepKeepsCounters ==
    /\ (pc \in WorkflowNodes /\ pc' # "generation_failed") =>
          /\ wf'.revision_count >= wf.revision_count
          /\ wf'.conversation_state.revision_count
                >= wf.conversation_state.revision_count
    /\ pc # "request_prompt" => cs'.revision_count >= cs.revision_count
    /\ pc = "request_prompt" => (cs' = cs \/ cs' = NewConversationState)

\* C16: between two resets of the ConversationState no step of the workflow
\* and no step of the feedback path lowers a revision counter: the
\* workflow's revision_count and ConversationState.revision_count stay or
\* grow.
C16_CountersNeverDecrease == [][StepKeepsCounters]_vars

\* C16, witness: in a second generation the workflow has counted one revision
\* while the shell's ConversationState still counts the modification of the
\* first story.
C16_Witness ==
    /\ pc = "evaluate_story"
    /\ sessions = 2
    /\ wf.revision_count = 1
    /\ wf.conversation_state.revision_count = 1
    /\ cs.revision_count = 1

\* the nodes executed so far follow the edges of the graph
WellFormedPath(t) ==
    \A i \in 1..Len(t) :
       IF i = 1 THEN t[i] = "generate_story"
       ELSE <<t[i-1], t[i]>> \in
               {<<"generate_story", "evaluate_story">>,
                <<"evaluate_story", "revise_story">>,
                <<"revise_story", "evaluate_story">>,
                <<"evaluate_story", "finalize_story">>}

\* a run that has reached END went GENERATE, EVALUATE, (REVISE, EVALUATE)*,
\* FINALIZE and returns a story, the workflow's current one
RunPathWellFormed ==
    /\ WellFormedPath(trace)
    /\ pc = "END" =>
          /\ trace[Len(trace)] = "finalize_story"
          /\ wf.final_story # <<>>
          /\ wf.final_story = wf.current_story

\* C17: when every completion call returns, every run of the workflow that
\* has started reaches finalize_story and END, along a path GENERATE,
\* EVALUATE, (REVISE, EVALUATE)*, FINALIZE, and returns a non-empty final
\* story equal to the workflow's current story.
C17_RunFinalizes ==
    /\ []RunPathWellFormed
    /\ (pc = "generate_story") ~> (pc = "END")

-----------------------------------------------------------------------------
(* The steps of the graph.                                                   *)

\* C18: after an EVALUATE step the next step is REVISE exactly when
\* revision_count < 2 and should_revise is true for the Evaluation just
\* produced, and FINALIZE in every other case; a story that needs no
\* revision is finalized with 0 revisions.
C18_EvaluateRouting ==
    /\ pc = "revise_story" =>
          /\ wf.revision_count < 2
          /\ ShouldRevise(wf.evaluation[1], MinThreshold)
    /\ pc = "finalize_story" =>
          ~(/\ wf.revision_count < 2
            /\ ShouldRevise(wf.evaluation[1], MinThreshold))
    /\ (pc = "finalize_story" /\ Count(trace, "evaluate_story") = 1) =>
          /\ wf.revision_count = 0
          /\ ~ShouldRevise(wf.evaluation[1], MinThreshold)

\* C18, witness: a story whose first Evaluation asks for no revision has been
\* finalized with 0 revisions.
C18_Witness ==
    /\ pc = "END"
    /\ trace = <<"generate_story", "evaluate_story", "finalize_story">>
    /\ wf.revision_count = 0
    /\ ~ShouldRevise(wf.evaluation[1], MinThreshold)

\* state["user_feedback"] holds a text
FeedbackPresent(state) ==
    state.user_feedback # <<>> /\ state.user_feedback[1] # <<>>

FinalizeStepCopies ==
    /\ pc = "finalize_story" =>
          /\ pc' = "END"
          /\ wf'.final_story = wf.current_story
          /\ wf'.current_story = wf.current_story
          /\ wf'.conversation_state.current_story = wf.current_story
          /\ ~wf'.should_continue
    /\ pc = "END" =>
          /\ pc' = "feedback_prompt"
          /\ wf.conversation_state.current_story = wf.final_story
          /\ story' = wf.final_story
          /\ story' # <<>>
          /\ cs'.current_story = story'

\* C20: FINALIZE copies the workflow's current Story into the current-story
\* slot of the ConversationState and the run stops: no node follows, the
\* story is returned to the shell, and the shell's ConversationState holds
\* the story the shell displays.
C20_FinalizeCopiesAndStops == [][FinalizeStepCopies]_vars

\* C20, witness: a generation with one revision has completed; the shell is
\* at its first feedback prompt with the story in its ConversationState.
C20_Witness ==
    /\ pc = "feedback_prompt"
    /\ turns = 0
    /\ story # <<>>
    /\ story[1].title = <<"N","i","g","h","t">>
    /\ cs.current_story = story

-----------------------------------------------------------------------------
(* Errors, the history, and the evaluations of a run.                        *)

Prompts == {"request_prompt", "feedback_prompt", "confirm"}

\* one step: a failing call leads to a handler of run_chat_session, the
\* handler prints its message and a prompt follows; the process ends from a
\* prompt only
ErrorStepOffersPrompt ==
    /\ (pc \in WorkflowNodes /\ pc' \notin WorkflowPositions) =>
          pc' = "generation_failed"
    /\ (pc \in {"process_user_feedback", "modification"}
          /\ pc' \notin {"chat_response", "modification", "feedback_prompt"}) =>
          pc' = "feedback_failed"
    /\ pc = "generation_failed" =>
          pc' = "confirm" /\ errorShown' = "generation"
    /\ pc = "feedback_failed" =>
          pc' = "feedback_prompt" /\ errorShown' = "feedback"
    /\ errorShown' # "none" => pc' \in {"confirm", "feedback_prompt"}
    /\ (pc' = "exited" /\ pc # "exited") => pc \in Prompts

\* C21: when a completion call fails during the generation or during the
\* processing of a feedback, the shell catches the error, prints a message
\* and a prompt follows at which the user can continue or exit; the process
\* never ends from an error, only from a prompt.
C21_ErrorOffersPrompt == [][ErrorStepOffersPrompt]_vars

\* C21, witness: the generation of a second story has failed; the message is
\* shown and the shell asks whether to create another story.
C21_Witness ==
    /\ pc = "confirm"
    /\ errorShown = "generation"
    /\ sessions = 2
    /\ story # <<>>

\* C22: in every ConversationState, the shell's and the running workflow's,
\* story_history holds as many stories as revision_count counts.
C22_HistoryMatchesCount ==
    /\ Len(cs.story_history) = cs.revision_count
    /\ Len(wf.conversation_state.story_history)
          = wf.conversation_state.revision_count

\* C22, witness: two modifications have been applied to a story; the history
\* holds the generated story and the first modification.
C22_Witness ==
    /\ pc = "feedback_prompt"
    /\ cs.revision_count = 2
    /\ Len(cs.story_history) = 2
    /\ cs.story_history[1] # cs.story_history[2]

\* one step: with the fallback Evaluation in the state the edge leads to
\* finalize_story, and revise_story is never entered with it
FallbackStepFinalizes ==
    /\ ~ShouldRevise(FallbackEvaluation, MinThreshold)
    /\ (pc = "should_revise" /\ wf.evaluation = <<FallbackEvaluation>>) =>
          pc' = "finalize_story"
    /\ pc' = "revise_story" => wf'.evaluation # <<FallbackEvaluation>>

\* C23: when the fallback Evaluation was substituted for a malformed judge
\* response, should_revise is false for it and the next node is
\* finalize_story: revise_story is never entered with the fallback
\* Evaluation.
C23_FallbackNeverRevises == [][FallbackStepFinalizes]_vars

\* C23, witness: the judge's response to the revised story was malformed; the
\* fallback Evaluation is in the state and finalize_story is next, before the
\* cap is reached.
C23_Witness ==
    /\ pc = "finalize_story"
    /\ wf.revision_count = 1
    /\ wf.evaluation = <<FallbackEvaluation>>
    /\ evaluated # <<>> /\ evaluated[1].evaluation = FallbackEvaluation

\* C24: after a feedback step, whether it succeeded or failed, the story the
\* shell passes as the base of the next feedback step is the current_story of
\* the shell's ConversationState.
C24_BaseIsCurrentStory ==
    pc \in {"feedback_prompt", "feedback_failed"} => cs.current_story = story

CommandWords == CmdQuit \cup CmdNewStory \cup CmdHelp

\* C25: the request of a running workflow is never a command word: a command
\* entered at the story-request prompt is not passed to generate_story.
C25_CommandNeverARequest ==
    wf.story_request # <<>> =>
        Strip(Lower(wf.story_request[1].request)) \notin CommandWords

\* C26: in a run of generate_story every version of the story is evaluated
\* before the next step: when a version awaits its evaluation the run has
\* evaluated revision_count times, afterwards revision_count + 1 times, and
\* from the edge on, at finalize_story and at END, the Evaluation in the
\* state is the one the judge returned for the current story.
C26_EachVersionEvaluated ==
    /\ pc = "evaluate_story" =>
          /\ Count(trace, "evaluate_story") = wf.revision_count
          /\ Count(trace, "revise_story") = wf.revision_count
    /\ pc \in {"should_revise", "revise_story", "finalize_story", "END"} =>
          /\ Count(trace, "evaluate_story") = wf.revision_count + 1
          /\ Count(trace, "revise_story") = wf.revision_count
          /\ evaluated # <<>>
          /\ evaluated[1].story = wf.current_story[1]
          /\ wf.evaluation = <<evaluated[1].evaluation>>

\* C26, witness: the revised story was evaluated anew and needs no revision;
\* it is finalized after 1 revision and 2 evaluations.
C26_Witness ==
    /\ pc = "finalize_story"
    /\ wf.revision_count = 1
    /\ Count(trace, "evaluate_story") = 2
    /\ evaluated[1].story = wf.current_story[1]
    /\ ~ShouldRevise(wf.evaluation[1], MinThreshold)

=============================================================================
